---- MODULE Spec2Model ----
(***************************************************************************)
(* Model of src/position_sizer.py: the PositionSizer class (four sizing    *)
(* methods over the account fields) and the static fetch_price_and_atr.    *)
(*                                                                         *)
(* Python floats are modelled as exact rationals <<num, den>> in lowest    *)
(* terms with den > 0; the pair <<0, 0>> stands for NaN and the empty      *)
(* tuple for None.  A quantity is a plain integer, as math.floor returns.  *)
(***************************************************************************)
EXTENDS Integers, Sequences, FiniteSets

VARIABLES account_balance, commission_per_trade, slippage_per_share,
          method, args, outcome, ret, ncalls

vars == <<account_balance, commission_per_trade, slippage_per_share,
          method, args, outcome, ret, ncalls>>

\* ------------------------------------------------------------ bounds ----
MaxCalls == 2
MaxBars == 3

\* ------------------------------------------------- rational arithmetic ----
Abs(n) == IF n < 0 THEN -n ELSE n

RECURSIVE GCD(_, _)
GCD(a, b) == IF b = 0 THEN a ELSE GCD(b, a % b)

\* the rational n/d, d # 0, in lowest terms with a positive denominator
Rat(n, d) ==
    LET g == GCD(Abs(n), Abs(d))
        s == IF d < 0 THEN -1 ELSE 1
    IN  <<(s * n) \div g, (s * d) \div g>>

FromInt(n) == <<n, 1>>
NaN == <<0, 0>>
None == << >>
IsNaN(x) == x[2] = 0

RAdd(x, y) == Rat(x[1] * y[2] + y[1] * x[2], x[2] * y[2])
RSub(x, y) == Rat(x[1] * y[2] - y[1] * x[2], x[2] * y[2])
RMul(x, y) == Rat(x[1] * y[1], x[2] * y[2])
\* true division; the caller has excluded y = 0 (ZeroDivisionError)
RDiv(x, y) == Rat(x[1] * y[2], x[2] * y[1])
RAbs(x) == <<Abs(x[1]), x[2]>>
RLe(x, y) == x[1] * y[2] <= y[1] * x[2]
RLt(x, y) == x[1] * y[2] < y[1] * x[2]
RMax(x, y) == IF RLt(x, y) THEN y ELSE x
RIsZero(x) == x[1] = 0

\* ------------------------------------------------------ input domains ----
BalanceSet == {FromInt(10000)}
CommissionSet == {FromInt(-5), FromInt(0), FromInt(300)}
SlippageSet == {FromInt(0), Rat(1, 2)}
PriceSet == {FromInt(-50), FromInt(0), FromInt(100)}
StopSet == {FromInt(95), FromInt(100)}
RiskPctSet == {Rat(1, 50), Rat(1, 20)}
AllocPctSet == {Rat(1, 10), FromInt(1)}
AtrSet == {FromInt(-2), FromInt(0), Rat(3, 2), FromInt(2)}
AtrMultSet == {Rat(1, 2), FromInt(1)}
WinRateSet == {Rat(-1, 10), Rat(2, 5), Rat(11, 20), Rat(6, 5)}
WinLossSet == {FromInt(-1), FromInt(0), Rat(1, 2), Rat(3, 2)}
KellyFracSet == {Rat(1, 4), FromInt(1)}
AtrPeriodSet == {1, 2, 14}

Bar(h, l, c) == [High |-> FromInt(h), Low |-> FromInt(l), Close |-> FromInt(c)]
BarSet == {Bar(3, 1, 2), Bar(4, 3, 4)}
BarSeqs == UNION {[1..n -> BarSet] : n \in 0..MaxBars}

\* ------------------------------------------------------------ results ----
Return(t) == [outcome |-> "returned", ret |-> t]
Raise(e) == [outcome |-> e, ret |-> << >>]

\* rounding up instead of down
ceil(x) == -((-x[1]) \div x[2])

\* math.floor of a float: round toward negative infinity, an int
floor(x) == x[1] \div x[2]

\* the clamp left out
ClampQtyMissing(q) == q

\* max(qty, 0)
ClampQty(q) == IF q > 0 THEN q ELSE 0

\* ------------------------------------------------------ PositionSizer ----
\* __init__: float() of each constructor argument
float(x) == x

risk_amount(bal, risk_pct) == RMul(bal, float(risk_pct))

fixed_risk_by_stop(bal, com, slip, entry_price, stop_price, risk_pct) ==
    LET trade_risk == RAdd(RAbs(RSub(entry_price, stop_price)), slip)
        risk_amt == risk_amount(bal, risk_pct)
    IN  IF RIsZero(trade_risk)
        THEN Raise("ZeroDivisionError")
        ELSE LET qty == ClampQty(floor(RDiv(RSub(risk_amt, com), trade_risk)))
                 cost == RAdd(RMul(FromInt(qty), entry_price), com)
             IN  Return(<<qty, cost, risk_amt, trade_risk>>)

percent_of_portfolio(bal, com, slip, entry_price, allocation_pct) ==
    LET position_value == RMul(bal, allocation_pct)
    IN  IF RIsZero(entry_price)
        THEN Raise("ZeroDivisionError")
        ELSE LET qty == ClampQty(floor(RDiv(RSub(position_value, com), entry_price)))
                 cost == RAdd(RMul(FromInt(qty), entry_price), com)
             IN  Return(<<qty, cost, position_value>>)

atr_position_size(bal, com, slip, atr, atr_multiplier, risk_pct) ==
    LET trade_risk == RAdd(RMul(atr, atr_multiplier), slip)
        risk_amt == risk_amount(bal, risk_pct)
    IN  IF RIsZero(trade_risk)
        THEN Raise("ZeroDivisionError")
        ELSE LET qty == ClampQty(floor(RDiv(RSub(risk_amt, com), trade_risk)))
             IN  Return(<<qty, risk_amt, trade_risk>>)

\* the clamp of a negative Kelly fraction left out
KellyUsedUnclamped(raw_kelly, fraction_of_kelly) == RMul(raw_kelly, fraction_of_kelly)

\* max(raw_kelly, 0.0) * fraction_of_kelly
KellyUsed(raw_kelly, fraction_of_kelly) ==
    RMul(RMax(raw_kelly, FromInt(0)), fraction_of_kelly)

kelly_position_size(bal, com, slip, entry_price, win_rate, win_loss_ratio, fraction_of_kelly) ==
    LET W == win_rate
        R == win_loss_ratio
    IN  IF RIsZero(R)
        THEN Raise("ZeroDivisionError")
        ELSE LET raw_kelly == RSub(W, RDiv(RSub(FromInt(1), W), R))
                 kelly_used == KellyUsed(raw_kelly, fraction_of_kelly)
                 position_value == RMul(bal, kelly_used)
             IN  IF RIsZero(entry_price)
                 THEN Raise("ZeroDivisionError")
                 ELSE LET qty == ClampQty(floor(RDiv(RSub(position_value, com), entry_price)))
                      IN  Return(<<qty, raw_kelly, kelly_used, position_value>>)

\* -------------------------------------------------- fetch_price_and_atr ----
\* a frame of fewer than two rows taken for empty
df_empty_short(bars) == Len(bars) <= 1

\* df.empty: the downloaded frame has no rows
df_empty(bars) == Len(bars) = 0

Column(bars, name) == [i \in 1..Len(bars) |-> bars[i][name]]

\* Series.shift(1): every value moves one row down, row 0 becomes NaN
shift(col) == [i \in 1..Len(col) |-> IF i = 1 THEN NaN ELSE col[i - 1]]

\* element-wise a - b; NaN propagates
SeriesSub(a, b) ==
    [i \in 1..Len(a) |-> IF IsNaN(a[i]) \/ IsNaN(b[i]) THEN NaN ELSE RSub(a[i], b[i])]

\* Series.abs(); NaN stays NaN
SeriesAbs(a) == [i \in 1..Len(a) |-> IF IsNaN(a[i]) THEN NaN ELSE RAbs(a[i])]

\* pd.concat([...], axis=1).max(axis=1): row-wise maximum, NaN cells skipped
RowMax(cols) ==
    [i \in 1..Len(cols[1]) |->
        LET cells == {cols[k][i] : k \in 1..Len(cols)}
            vals == {v \in cells : ~IsNaN(v)}
        IN  IF vals = {} THEN NaN
            ELSE CHOOSE m \in vals : \A v \in vals : RLe(v, m)]

RECURSIVE SumFrom(_, _, _)
\* sum of the non-NaN values of s[lo..hi]
SumFrom(s, lo, hi) ==
    IF lo > hi THEN FromInt(0)
    ELSE IF IsNaN(s[hi]) THEN SumFrom(s, lo, hi - 1)
    ELSE RAdd(SumFrom(s, lo, hi - 1), s[hi])

\* the sum always divided by the window length
RollingMeanLastFullWindow(s, window, min_periods) ==
    LET hi == Len(s)
        lo == IF hi - window + 1 < 1 THEN 1 ELSE hi - window + 1
    IN  RDiv(SumFrom(s, lo, hi), FromInt(window))

\* s.rolling(window, min_periods).mean().iloc[-1]
RollingMeanLast(s, window, min_periods) ==
    LET hi == Len(s)
        lo == IF hi - window + 1 < 1 THEN 1 ELSE hi - window + 1
        cnt == Cardinality({i \in lo..hi : ~IsNaN(s[i])})
    IN  IF cnt >= min_periods /\ cnt > 0
        THEN RDiv(SumFrom(s, lo, hi), FromInt(cnt))
        ELSE NaN

\* bars is what yf.download returned for the ticker, oldest row first
fetch_price_and_atr(bars, atr_period) ==
    IF df_empty(bars)
    THEN Return(<<None, None>>)
    ELSE LET high == Column(bars, "High")
             low == Column(bars, "Low")
             close == Column(bars, "Close")
             prev_close == shift(close)
             tr == RowMax(<<SeriesSub(high, low),
                            SeriesAbs(SeriesSub(high, prev_close)),
                            SeriesAbs(SeriesSub(low, prev_close))>>)
             atr == RollingMeanLast(tr, atr_period, 1)
             last_close == close[Len(close)]
         IN  Return(<<float(last_close), float(atr)>>)

\* ------------------------------------------------------------ actions ----
SizingMethods == {"fixed_risk_by_stop", "percent_of_portfolio",
                  "atr_position_size", "kelly_position_size"}

\* PositionSizer(account_balance, commission_per_trade, slippage_per_share)
Init ==
    /\ account_balance \in {float(b) : b \in BalanceSet}
    /\ commission_per_trade \in {float(c) : c \in CommissionSet}
    /\ slippage_per_share \in {float(s) : s \in SlippageSet}
    /\ method = "__init__"
    /\ args = << >>
    /\ outcome = "returned"
    /\ ret = << >>
    /\ ncalls = 0

Called(m, a, r) ==
    /\ ncalls < MaxCalls
    /\ method' = m
    /\ args' = a
    /\ outcome' = r.outcome
    /\ ret' = r.ret
    /\ ncalls' = ncalls + 1

SelfUnchanged == UNCHANGED <<account_balance, commission_per_trade, slippage_per_share>>

FixedRiskByStop ==
    \E e \in PriceSet, s \in StopSet, rp \in RiskPctSet :
        /\ Called("fixed_risk_by_stop", <<e, s, rp>>,
                  fixed_risk_by_stop(account_balance, commission_per_trade,
                                     slippage_per_share, e, s, rp))
        /\ SelfUnchanged

\* the cost of the sized position taken off the balance
PercentOfPortfolioSpends ==
    \E e \in PriceSet, ap \in AllocPctSet :
        LET r == percent_of_portfolio(account_balance, commission_per_trade,
                                      slippage_per_share, e, ap)
        IN  /\ Called("percent_of_portfolio", <<e, ap>>, r)
            /\ account_balance' = IF r.outcome = "returned"
                                  THEN RSub(account_balance, r.ret[2])
                                  ELSE account_balance
            /\ UNCHANGED <<commission_per_trade, slippage_per_share>>

PercentOfPortfolio ==
    \E e \in PriceSet, ap \in AllocPctSet :
        /\ Called("percent_of_portfolio", <<e, ap>>,
                  percent_of_portfolio(account_balance, commission_per_trade,
                                       slippage_per_share, e, ap))
        /\ SelfUnchanged

AtrPositionSize ==
    \E a \in AtrSet, m \in AtrMultSet, rp \in RiskPctSet :
        /\ Called("atr_position_size", <<a, m, rp>>,
                  atr_position_size(account_balance, commission_per_trade,
                                    slippage_per_share, a, m, rp))
        /\ SelfUnchanged

KellyPositionSize ==
    \E e \in PriceSet, w \in WinRateSet, r \in WinLossSet, f \in KellyFracSet :
        /\ Called("kelly_position_size", <<e, w, r, f>>,
                  kelly_position_size(account_balance, commission_per_trade,
                                      slippage_per_share, e, w, r, f))
        /\ SelfUnchanged

FetchPriceAndAtr ==
    \E bars \in BarSeqs, p \in AtrPeriodSet :
        /\ Called("fetch_price_and_atr", <<bars, p>>, fetch_price_and_atr(bars, p))
        /\ SelfUnchanged

Next ==
    \/ FixedRiskByStop
    \/ PercentOfPortfolio
    \/ AtrPositionSize
    \/ KellyPositionSize
    \/ FetchPriceAndAtr

Spec == Init /\ [][Next]_vars

\* --------------------------------------------- terms used by the claims ----
Zero == FromInt(0)
One == FromInt(1)
Returned == outcome = "returned"
Quantity == ret[1]

\* riskAmount - commission for the methods that take risk_pct as args[3]
NetRisk == RSub(RMul(account_balance, args[3]), commission_per_trade)
\* riskPerShare = |entry - stop| + slippage
RiskPerShare == RAdd(RAbs(RSub(args[1], args[2])), slippage_per_share)
\* riskPerUnit = atr * atr_multiplier + slippage
RiskPerUnit == RAdd(RMul(args[1], args[2]), slippage_per_share)

ValidAccount ==
    /\ RLt(Zero, account_balance)
    /\ RLe(Zero, commission_per_trade)
    /\ RLe(Zero, slippage_per_share)

ValidArgs ==
    CASE method = "fixed_risk_by_stop" ->
            RLt(Zero, args[1]) /\ RLt(Zero, args[2]) /\ RLt(Zero, RiskPerShare)
      [] method = "percent_of_portfolio" -> RLt(Zero, args[1])
      [] method = "atr_position_size" -> RLt(Zero, RiskPerUnit)
      [] method = "kelly_position_size" -> RLt(Zero, args[1]) /\ RLt(Zero, args[3])
      [] OTHER -> FALSE

\* C1: for every sizing method and all valid inputs (balance > 0,
\* commission >= 0, slippage >= 0, positive prices, positive denominators),
\* whenever the method returns, the quantity is an integer and is >= 0.
QuantityNonNegativeInteger ==
    (method \in SizingMethods /\ ValidAccount /\ ValidArgs /\ Returned)
        => (Quantity \in Int /\ Quantity >= 0)

\* a valid call whose risk budget is below the commission: the clamp acts
WitnessQuantityClamped ==
    /\ method = "atr_position_size" /\ ValidAccount /\ ValidArgs /\ Returned
    /\ RLt(NetRisk, Zero)
    /\ Quantity = 0

\* C2 as stated: for every returning call with riskPerShare > 0,
\* quantity * riskPerShare <= riskAmount - commission and
\* (quantity + 1) * riskPerShare > riskAmount - commission.
FixedRiskFloorAsStated ==
    (method = "fixed_risk_by_stop" /\ Returned /\ RLt(Zero, RiskPerShare))
        => /\ RLe(RMul(FromInt(Quantity), RiskPerShare), NetRisk)
           /\ RLt(NetRisk, RMul(FromInt(Quantity + 1), RiskPerShare))

\* C2 amended: for every returning call with riskPerShare > 0,
\* (quantity + 1) * riskPerShare > riskAmount - commission; and
\* quantity * riskPerShare <= riskAmount - commission whenever
\* riskAmount - commission >= 0, while quantity = 0 when it is negative.
FixedRiskFloorClamped ==
    (method = "fixed_risk_by_stop" /\ Returned /\ RLt(Zero, RiskPerShare))
        => /\ RLt(NetRisk, RMul(FromInt(Quantity + 1), RiskPerShare))
           /\ RLe(Zero, NetRisk) => RLe(RMul(FromInt(Quantity), RiskPerShare), NetRisk)
           /\ RLt(NetRisk, Zero) => Quantity = 0

\* a call sized by a quotient that is not a whole number: 200 / 5.5 -> 36
WitnessFixedRiskFloor ==
    /\ method = "fixed_risk_by_stop" /\ Returned
    /\ RLt(Zero, NetRisk)
    /\ Quantity > 0
    /\ RLt(RMul(FromInt(Quantity), RiskPerShare), NetRisk)

\* C3: fixed_risk_by_stop with riskPerShare = 0 either fails with InvalidInput
\* or returns quantity 0; it never performs the division by zero.
ZeroRiskPerShareRejected ==
    (method = "fixed_risk_by_stop" /\ RIsZero(RiskPerShare))
        => \/ outcome = "InvalidInput"
           \/ (Returned /\ Quantity = 0)

\* C4: percent_of_portfolio with entry_price <= 0 fails with InvalidInput
\* and returns no sizing result.
NonPositiveEntryRejected ==
    (method = "percent_of_portfolio" /\ RLe(args[1], Zero))
        => outcome = "InvalidInput"

\* C5: atr_position_size with riskPerUnit <= 0 fails with InvalidInput; it
\* never returns a result, in particular never a positive quantity.
NonPositiveRiskPerUnitRejected ==
    (method = "atr_position_size" /\ RLe(RiskPerUnit, Zero))
        => outcome = "InvalidInput"

\* C6: kelly_position_size with win_loss_ratio = 0, or with win_rate outside
\* [0, 1], fails with InvalidInput rather than dividing by zero or returning
\* a sizing result.
KellyInputsValidated ==
    (/\ method = "kelly_position_size"
     /\ \/ RIsZero(args[3])
        \/ RLt(args[2], Zero)
        \/ RLt(One, args[2]))
        => outcome = "InvalidInput"

\* the frame handed to fetch_price_and_atr and its period
Bars == args[1]
Period == args[2]
Empty == <<None, None>>

\* C7: given an empty bar sequence the estimator returns the explicit empty
\* result (None, None) without raising; given a non-empty sequence it never
\* returns the empty result.
EmptyResultIffNoBars ==
    method = "fetch_price_and_atr"
        => /\ Returned
           /\ (ret = Empty) <=> (Len(Bars) = 0)

\* the estimator was handed an empty frame
WitnessEmptyBars ==
    /\ method = "fetch_price_and_atr"
    /\ Bars = << >>
    /\ ret = Empty

\* trueRange[i] as the specification defines it (rows counted from 1)
TrueRange(bars, i) ==
    LET hl == RSub(bars[i].High, bars[i].Low)
    IN  IF i = 1 THEN hl
        ELSE RMax(hl, RMax(RAbs(RSub(bars[i].High, bars[i - 1].Close)),
                           RAbs(RSub(bars[i].Low, bars[i - 1].Close))))

RECURSIVE TrueRangeSum(_, _, _)
\* trueRange summed over the last k rows ending at row i
TrueRangeSum(bars, i, k) ==
    IF k = 0 THEN Zero
    ELSE RAdd(TrueRange(bars, i), TrueRangeSum(bars, i - 1, k - 1))

Min(a, b) == IF a < b THEN a ELSE b

\* C8: for a non-empty bar sequence of length n and a period p >= 1, atr is
\* the arithmetic mean of trueRange over the last min(n, p) bars (all n bars
\* when n < p), and lastClose is the close of the final bar.
AtrIsMeanOfTrailingTrueRange ==
    (method = "fetch_price_and_atr" /\ Len(Bars) > 0)
        => LET n == Len(Bars)
               k == Min(n, Period)
           IN  /\ Returned
               /\ ret[1] = Bars[n].Close
               /\ ~IsNaN(ret[2])
               /\ RMul(ret[2], FromInt(k)) = TrueRangeSum(Bars, n, k)

\* fewer bars than the period, and a gap from the previous close sets the
\* true range of the last bar: true ranges 1 and 3, mean 2
WitnessShortHistoryAtr ==
    /\ method = "fetch_price_and_atr"
    /\ Len(Bars) = 2
    /\ Period > Len(Bars)
    /\ RLt(RSub(Bars[2].High, Bars[2].Low), TrueRange(Bars, 2))
    /\ ret[2] = FromInt(2)

\* the last sizing call, made again on the instance as it is now
Recall ==
    CASE method = "fixed_risk_by_stop" ->
            fixed_risk_by_stop(account_balance, commission_per_trade,
                               slippage_per_share, args[1], args[2], args[3])
      [] method = "percent_of_portfolio" ->
            percent_of_portfolio(account_balance, commission_per_trade,
                                 slippage_per_share, args[1], args[2])
      [] method = "atr_position_size" ->
            atr_position_size(account_balance, commission_per_trade,
                              slippage_per_share, args[1], args[2], args[3])
      [] method = "kelly_position_size" ->
            kelly_position_size(account_balance, commission_per_trade,
                                slippage_per_share, args[1], args[2], args[3], args[4])

\* C9: no call changes account_balance, commission_per_trade or
\* slippage_per_share, so a sizing method called again with identical
\* arguments returns the identical result, whatever was called in between.
SizerStateNeverDrifts ==
    /\ [][/\ account_balance' = account_balance
          /\ commission_per_trade' = commission_per_trade
          /\ slippage_per_share' = slippage_per_share]_vars
    /\ [](method \in SizingMethods
            => Recall = [outcome |-> outcome, ret |-> ret])

\* a second call on the same instance has returned a position
WitnessSecondCall ==
    /\ ncalls >= 2
    /\ method \in SizingMethods
    /\ Returned
    /\ Quantity > 0

\* C10: for entry_price > 0, win_loss_ratio # 0 and commission >= 0,
\* rawKelly = win_rate - (1 - win_rate) / win_loss_ratio,
\* usedKelly = max(rawKelly, 0) * fraction_of_kelly, and
\* quantity = max(floor((balance * usedKelly - commission) / entry_price), 0);
\* whenever rawKelly <= 0 the method returns usedKelly = 0, positionValue = 0
\* and quantity = 0 and still reports the negative rawKelly.
KellyClampsNegativeEdge ==
    (/\ method = "kelly_position_size"
     /\ RLt(Zero, args[1])
     /\ ~RIsZero(args[3])
     /\ RLe(Zero, commission_per_trade))
        => LET W == args[2]
               R == args[3]
               rawKelly == ret[2]
               usedKelly == ret[3]
               positionValue == ret[4]
               net == RSub(positionValue, commission_per_trade)
           IN  /\ Returned
               /\ RMul(rawKelly, R) = RSub(RMul(W, R), RSub(One, W))
               /\ usedKelly = IF RLt(Zero, rawKelly) THEN RMul(rawKelly, args[4]) ELSE Zero
               /\ positionValue = RMul(account_balance, usedKelly)
               /\ Quantity \in Nat
               /\ RLt(net, RMul(FromInt(Quantity + 1), args[1]))
               /\ RLe(Zero, net) => RLe(RMul(FromInt(Quantity), args[1]), net)
               /\ RLt(net, Zero) => Quantity = 0
               /\ RLe(rawKelly, Zero)
                    => usedKelly = Zero /\ positionValue = Zero /\ Quantity = 0

\* a losing edge: rawKelly is negative and is reported as such
WitnessNegativeKelly ==
    /\ method = "kelly_position_size"
    /\ RLt(Zero, args[1])
    /\ RLe(Zero, args[2]) /\ RLe(args[2], One)
    /\ RLe(Zero, commission_per_trade)
    /\ Returned
    /\ RLt(ret[2], Zero)
    /\ ret[3] = Zero
    /\ Quantity = 0

====
